---- MODULE Spec2Model ----
(***************************************************************************)
(* Smart Quiz & Progress Tracker (src/sample.py): a Streamlit application. *)
(* Every user interaction re-runs main() from the top; st.session_state    *)
(* and the two JSON files survive between runs, widget values survive as  *)
(* long as the widget is rendered in every run, and a button returns True *)
(* only in the run its click caused.  One action below is one such run.   *)
(***************************************************************************)
EXTENDS Integers, Sequences, FiniteSets, TLC

VARIABLES
    questions_file,     \* content of questions.json: a sequence of question records
    results_file,       \* content of results.json: a sequence of result records
    quiz_running,       \* st.session_state["quiz_running"]: "absent", "true" or "false"
    last_pool,          \* st.session_state["last_pool"]: ids of the selection (<<>> when absent)
    current_q_index,    \* st.session_state["current_q_index"] (0 when absent, as .get(..., 0))
    score,              \* st.session_state["score"] (0 when absent)
    answers,            \* st.session_state["answers"] (<<>> when absent)
    start_time,         \* st.session_state["start_time"] (0 when absent)
    now,                \* the clock: it ticks once with every session start, recorded
                        \* submission, finish and write of the question bank
    page,               \* the sidebar radio "Go to"
    category,           \* selectbox "Choose category" ("All" while not rendered)
    num_questions,      \* slider "Number of questions" (0 while not rendered)
    shuffle,            \* checkbox "Shuffle questions" (TRUE while not rendered)
    quiz_shown,         \* TRUE iff the last run rendered the three widgets above
    choice_key,         \* id in the key of the radio rendered by the last run (0: none)
    choice,             \* value of that radio ("" when none)
    finish_shown,       \* TRUE iff the last run rendered the "Finish Quiz" button
    selected_questions, \* take_quiz's local selected_questions in its last run
    q_index,            \* take_quiz's local q_index in the last run (0 if it showed no question)
    clicked,            \* the st.button / form button that returned True in the last run ("": none)
    horizon,            \* the tick at which the clock stops in this behaviour
    grade_in,           \* calculate_grade's arguments <<score, total>> (pure-function runs)
    grade_out,          \* calculate_grade's result [pct, grade] (pure-function runs)
    id_in,              \* generate_id's argument qs (pure-function runs)
    id_out,             \* generate_id's result (pure-function runs; 0 before the call)
    deleted_id          \* history: the id removed by "Delete" when that was the latest
                        \* write of the question bank, else 0

vars == <<questions_file, results_file, quiz_running, last_pool, current_q_index,
          score, answers, start_time, now, page, category, num_questions, shuffle,
          quiz_shown, choice_key, choice, finish_shown, selected_questions, q_index,
          clicked, horizon, grade_in, grade_out, id_in, id_out, deleted_id>>

fileVars    == <<questions_file, results_file>>
sessionVars == <<quiz_running, last_pool, current_q_index, score, answers, start_time>>
quizWidgets == <<category, num_questions, shuffle, quiz_shown, choice_key, choice,
                 finish_shown>>
quizLocals  == <<selected_questions, q_index>>
fixedVars   == <<horizon, grade_in, grade_out, id_in, id_out>>

----------------------------------------------------------------------------
(* Bounds of the model *)

\* the clock stops at MaxClock when the whole application is explored: at most
\* MaxClock session starts, recorded submissions, finishes and bank writes happen
MaxClock == 3
\* the clock stops at MaxQuizClock when one visit of the Take Quiz page is explored
MaxQuizClock == 5
\* the clock stops at MaxBankClock when attempts alternate with additions to and
\* deletions from the question bank
MaxBankClock == 5
\* the user picks among the first MaxPick options of the answer radio
MaxPick == 2
\* random.shuffle leaves the pool rotated by 0, 1, ... or MaxShuffle - 1 places
MaxShuffle == 2
\* calculate_grade is explored for totals 0..MaxTotal
MaxTotal == 20
\* generate_id is explored for banks of at most MaxLen questions with ids 1..MaxId
MaxLen == 3
MaxId == 4

(* Program constants *)
SliderMax == 20
SliderDefault == 5
GradeA == 85
GradeB == 70
GradeC == 50

----------------------------------------------------------------------------
(* Generic helpers *)

Min(a, b) == IF a <= b THEN a ELSE b

Range(s) == {s[i] : i \in 1..Len(s)}

RECURSIVE GCD(_, _)
GCD(a, b) == IF b = 0 THEN a ELSE GCD(b, a % b)

\* the float score/total*100, as an exact fraction in lowest terms
Frac(n, d) == LET g == GCD(n, d) IN [num |-> n \div g, den |-> d \div g]

\* pct >= k for a fraction pct and an integer k
FracGE(f, k) == f.num >= k * f.den

RECURSIVE SelectSeq2(_, _, _)
\* the list comprehension [x for x in s if keep[x]], by position
SelectSeq2(s, keep, i) ==
    IF i > Len(s) THEN <<>>
    ELSE IF keep[i] THEN <<s[i]>> \o SelectSeq2(s, keep, i + 1)
         ELSE SelectSeq2(s, keep, i + 1)

\* the rotation of 1..n by k places: <<k+1, ..., n, 1, ..., k>>
Rotation(n, k) == [i \in 1..n |-> ((i + k - 1) % n) + 1]

----------------------------------------------------------------------------
(* Files *)

default_questions ==
    << [id |-> 1, category |-> "General Knowledge",
        question |-> "What is the capital of France?",
        choices |-> <<"Paris", "London", "Berlin", "Madrid">>, answer |-> "Paris"],
       [id |-> 2, category |-> "Math",
        question |-> "What is 7 * 8?",
        choices |-> <<"54", "56", "58", "49">>, answer |-> "56"],
       [id |-> 3, category |-> "Science",
        question |-> "Water's chemical formula is?",
        choices |-> <<"H2O", "CO2", "O2", "NaCl">>, answer |-> "H2O"] >>

\* ensure_files_exist, questions part: write the defaults when the file is missing
ensure_questions(exists, content) == IF ~exists THEN default_questions ELSE content

\* ensure_files_exist, results part: write [] when the file is missing
ensure_results(exists, content) == IF ~exists THEN <<>> ELSE content

\* load_questions / load_results at the start of a run (both files exist between runs)
load_questions == ensure_questions(TRUE, questions_file)
load_results == ensure_results(TRUE, results_file)

\* a save_result that writes the new record alone, dropping what was loaded
save_result_overwrite(results, result) == <<result>>

\* save_result: load, append, write back
save_result(results, result) == Append(results, result)

\* a generate_id that looks at the first question instead of the highest id
generate_id_of_first(qs) == IF qs = <<>> THEN 1 ELSE qs[1].id + 1

\* a generate_id that counts the questions instead of taking the highest id
generate_id_by_length(qs) == Len(qs) + 1

\* generate_id
generate_id(qs) ==
    IF qs = <<>> THEN 1
    ELSE (CHOOSE m \in {qs[i].id : i \in 1..Len(qs)} :
              \A i \in 1..Len(qs) : qs[i].id <= m) + 1

\* get_categories (as a set: the order only matters for display)
get_categories(qs) == {qs[i].category : i \in 1..Len(qs)}

Ids(qs) == [i \in 1..Len(qs) |-> qs[i].id]

----------------------------------------------------------------------------
(* calculate_grade *)

calculate_pct(s, total) == IF total > 0 THEN Frac(s * 100, total) ELSE Frac(0, 1)

\* a grade_of whose breakpoints are exclusive
grade_of_exclusive(pct) ==
    IF pct.num > GradeA * pct.den THEN "A"
    ELSE IF pct.num > GradeB * pct.den THEN "B"
    ELSE IF pct.num > GradeC * pct.den THEN "C"
    ELSE "D"

grade_of(pct) ==
    IF FracGE(pct, GradeA) THEN "A"
    ELSE IF FracGE(pct, GradeB) THEN "B"
    ELSE IF FracGE(pct, GradeC) THEN "C"
    ELSE "D"

calculate_grade(s, total) ==
    LET pct == calculate_pct(s, total) IN [pct |-> pct, grade |-> grade_of(pct)]

----------------------------------------------------------------------------
(* Session state helpers *)

\* a quiz_session_reset that leaves the index where it is
quiz_session_reset_keeps_index ==
    [current_q_index |-> current_q_index, score |-> 0, answers |-> <<>>]

\* a quiz_session_reset that forgets to clear the score
quiz_session_reset_keeps_score ==
    [current_q_index |-> 0, score |-> score, answers |-> <<>>]

\* quiz_session_reset: the three keys it assigns
quiz_session_reset == [current_q_index |-> 0, score |-> 0, answers |-> <<>>]

\* the three keys as they are now
session_now == [current_q_index |-> current_q_index, score |-> score, answers |-> answers]

----------------------------------------------------------------------------
(* take_quiz, step by step *)

\* a filter that ignores the chosen category
filter_pool_unfiltered(qs, cat) == qs

\* "Filter questions": the pool of the chosen category, in bank order
filter_pool(qs, cat) ==
    IF cat = "All" THEN qs
    ELSE SelectSeq2(qs, [i \in 1..Len(qs) |-> qs[i].category = cat], 1)

\* random.shuffle(pool) with outcome perm (the identity when shuffle is off),
\* then pool[:num_questions]
select_questions(pool, perm, num) ==
    LET shuffled == [i \in 1..Len(pool) |-> pool[perm[i]]]
    IN  SubSeq(shuffled, 1, Min(num, Len(pool)))

\* the outcomes random.shuffle can have on a pool of n questions
shuffle_outcomes(shuf, n) ==
    IF shuf THEN {Rotation(n, k) : k \in 0..(Min(MaxShuffle, n) - 1)}
    ELSE {Rotation(n, 0)}

\* a reset condition that compares the ids as sets, not as ordered lists
needs_reset_unordered(running, lp, sel) ==
    running = "absent" \/ Range(lp) # Range(Ids(sel))

\* the condition of "initialize session state"
needs_reset(running, lp, sel) == running = "absent" \/ lp # Ids(sel)

\* the value of st.radio(..., q["choices"], key=f"choice_{q['id']}"): the stored value
\* when a radio with this key was rendered by the previous run, else the first option
radio_value(q, rk, rv) ==
    IF q.choices = <<>> THEN ""
    ELSE IF rk = q.id /\ rv \in Range(q.choices) THEN rv
    ELSE q.choices[1]

\* button "Previous"
press_previous(ss, qi) ==
    IF qi > 0 THEN [ss EXCEPT !.current_q_index = ss.current_q_index - 1] ELSE ss

\* a Next without the check against the last index
press_next_unclamped(ss, qi, n) ==
    [ss EXCEPT !.current_q_index = ss.current_q_index + 1]

\* button "Next"
press_next(ss, qi, n) ==
    IF qi < n - 1 THEN [ss EXCEPT !.current_q_index = ss.current_q_index + 1] ELSE ss

\* a Submit Answer without the check for an earlier submission
submit_answer_unchecked(ss, q, ch) ==
    [ss EXCEPT
        !.answers = Append(ss.answers,
            [question_id |-> q.id, selected_choice |-> ch, is_correct |-> (ch = q.answer)]),
        !.score = IF ch = q.answer THEN ss.score + 1 ELSE ss.score]

\* button "Submit Answer"
submit_answer(ss, q, ch) ==
    LET correct == (ch = q.answer)
        already == \E i \in 1..Len(ss.answers) : ss.answers[i].question_id = q.id
    IN  IF ~already
        THEN [ss EXCEPT
                !.answers = Append(ss.answers,
                    [question_id |-> q.id, selected_choice |-> ch, is_correct |-> correct]),
                !.score = IF correct THEN ss.score + 1 ELSE ss.score]
        ELSE ss

\* a result record whose total is the number of recorded submissions
build_result_of_answers(ss, sel, cat, t) ==
    LET total == Len(ss.answers)
        g == calculate_grade(ss.score, total)
    IN  [timestamp |-> t, score |-> ss.score, total |-> total, pct |-> g.pct,
         grade |-> g.grade, category |-> cat, answers |-> ss.answers]

\* a result record whose grade is computed with score and total swapped
build_result_swapped(ss, sel, cat, t) ==
    LET total == Len(sel)
        g == calculate_grade(total, ss.score)
    IN  [timestamp |-> t, score |-> ss.score, total |-> total,
         pct |-> calculate_grade(ss.score, total).pct,
         grade |-> g.grade, category |-> cat, answers |-> ss.answers]

\* the result record built by "Finish Quiz"
build_result(ss, sel, cat, t) ==
    LET total == Len(sel)
        g == calculate_grade(ss.score, total)
    IN  [timestamp |-> t, score |-> ss.score, total |-> total, pct |-> g.pct,
         grade |-> g.grade, category |-> cat, answers |-> ss.answers]

\* the buttons of the page, applied to the session keys: only the clicked one acts
apply_button(click, ss, q, ch, qi, n) ==
    IF click = "Previous" THEN press_previous(ss, qi)
    ELSE IF click = "Submit Answer" THEN submit_answer(ss, q, ch)
    ELSE IF click = "Next" THEN press_next(ss, qi, n)
    ELSE ss

\* a Finish Quiz button rendered on every question
finish_rendered_always(qi, n) == TRUE

\* "Finish Quiz" is rendered on the last question only
finish_rendered(qi, n) == qi = n - 1

\* nothing of the quiz page is rendered (another page, or an empty bank)
NoQuizWidgets ==
    /\ category' = "All" /\ num_questions' = 0 /\ shuffle' = TRUE
    /\ quiz_shown' = FALSE /\ choice_key' = 0 /\ choice' = "" /\ finish_shown' = FALSE

\* the session keys after the sidebar part of main
SetSession(ss) ==
    /\ current_q_index' = ss.current_q_index
    /\ score' = ss.score
    /\ answers' = ss.answers

\* an early return placed after the initialization of the session
early_return_after_init(ss0) ==
    /\ SetSession(quiz_session_reset)
    /\ q_index' = 0
    /\ quiz_running' = "true" /\ last_pool' = <<>> /\ start_time' = now
    /\ UNCHANGED <<fileVars, now, selected_questions>>

\* the two early returns of take_quiz (empty bank, empty pool): they come before
\* the initialization of the session, which stays as take_quiz found it
early_return(ss0) ==
    /\ SetSession(ss0)
    /\ q_index' = 0
    /\ UNCHANGED <<fileVars, quiz_running, last_pool, start_time, now,
                   selected_questions>>

\* One run of take_quiz.  cat_w, num_w, shuf_w: the widget values of this run;
\* rk, rv: the answer radio's stored key and value; click: the button whose click
\* caused the run ("" for none); ss0: the session keys when take_quiz starts.
take_quiz(cat_w, num_w, shuf_w, rk, rv, click, ss0) ==
    LET qs == load_questions IN
    IF qs = <<>>
    THEN /\ NoQuizWidgets
         /\ early_return(ss0)
    ELSE
    LET pool == filter_pool(qs, cat_w) IN
    IF pool = <<>>
    THEN /\ category' = cat_w /\ num_questions' = num_w /\ shuffle' = shuf_w
         /\ quiz_shown' = TRUE /\ choice_key' = 0 /\ choice' = "" /\ finish_shown' = FALSE
         /\ early_return(ss0)
    ELSE
    \E perm \in shuffle_outcomes(shuf_w, Len(pool)) :
    LET sel   == select_questions(pool, perm, num_w)
        reset == needs_reset(quiz_running, last_pool, sel)
        t1    == IF reset THEN now + 1 ELSE now
        ss1   == IF reset THEN quiz_session_reset ELSE ss0
        qi    == ss1.current_q_index
        n     == Len(sel)
    IN
    /\ t1 <= horizon
    /\ category' = cat_w /\ num_questions' = num_w /\ shuffle' = shuf_w
    /\ quiz_shown' = TRUE
    /\ selected_questions' = sel
    /\ q_index' = qi
    /\ last_pool' = IF reset THEN Ids(sel) ELSE last_pool
    /\ start_time' = IF reset THEN t1 ELSE start_time
    /\ UNCHANGED questions_file
    /\ IF qi \notin 0..(n - 1)
       THEN \* selected_questions[q_index] raises IndexError: the run ends here
            /\ quiz_running' = IF reset THEN "true" ELSE quiz_running
            /\ SetSession(ss1)
            /\ now' = t1
            /\ choice_key' = 0 /\ choice' = "" /\ finish_shown' = FALSE
            /\ UNCHANGED results_file
       ELSE
       LET q   == sel[qi + 1]
           ch  == radio_value(q, rk, rv)
           ss2 == apply_button(click, ss1, q, ch, qi, n)
           fin == finish_rendered(qi, n) /\ click = "Finish Quiz"
           t2  == t1 + (Len(ss2.answers) - Len(ss1.answers))
       IN
       /\ choice_key' = q.id
       /\ choice' = ch
       /\ finish_shown' = finish_rendered(qi, n)
       /\ SetSession(ss2)
       /\ IF fin
          THEN /\ t2 + 1 <= horizon
               /\ results_file' = save_result(load_results,
                                              build_result(ss2, sel, cat_w, t2 + 1))
               /\ quiz_running' = "false"
               /\ now' = t2 + 1
          ELSE /\ t2 <= horizon
               /\ results_file' = load_results
               /\ quiz_running' = IF reset THEN "true" ELSE quiz_running
               /\ now' = t2

----------------------------------------------------------------------------
(* main: the sidebar and the page dispatch *)

\* Each interaction is one run of main(). The guard on the script's last lines
\* reads _name_ == "_main_" (single underscores), which as written raises
\* NameError before main() is called; the model describes the runs of main()
\* itself, which is how every handler below is reached.

Pages == {"Flash Screen", "Take Quiz", "View Results", "Edit Questions",
          "Display Questions", "About"}

\* the widget values take_quiz sees: the stored ones while the widgets stay
\* rendered, else the defaults given in the source
widget_category == IF quiz_shown THEN category ELSE "All"
slider_max(qs) == Min(SliderMax, Len(qs))
widget_num(qs) == IF quiz_shown THEN num_questions ELSE Min(SliderDefault, Len(qs))
widget_shuffle == IF quiz_shown THEN shuffle ELSE TRUE

\* a page that only reads: Flash Screen, View Results, Display Questions, About,
\* and Edit Questions when no form is submitted
read_only_page(ss0) ==
    /\ NoQuizWidgets
    /\ SetSession(ss0)
    /\ q_index' = 0
    /\ UNCHANGED <<quiz_running, last_pool, start_time, now, selected_questions>>
    /\ questions_file' = load_questions
    /\ results_file' = load_results

\* the sidebar radio moves to page p
Navigate(p) ==
    /\ p \in Pages \ {page}
    /\ page' = p
    /\ clicked' = ""
    /\ IF p = "Take Quiz"
       THEN take_quiz("All", Min(SliderDefault, Len(load_questions)), TRUE, 0, "",
                      "", session_now)
       ELSE read_only_page(session_now)
    /\ UNCHANGED <<fixedVars, deleted_id>>

\* the sidebar button "Reset Quiz Session", then the current page
SidebarReset ==
    /\ clicked' = "Reset Quiz Session"
    /\ IF page = "Take Quiz"
       THEN take_quiz(widget_category, widget_num(load_questions), widget_shuffle,
                      choice_key, choice, "", quiz_session_reset)
       ELSE read_only_page(quiz_session_reset)
    /\ UNCHANGED <<page, fixedVars, deleted_id>>

----------------------------------------------------------------------------
(* Take Quiz: one run per interaction with a widget of the page *)

QuizPage == page = "Take Quiz" /\ quiz_shown

SetCategory(c) ==
    /\ QuizPage
    /\ c \in ({"All"} \cup get_categories(load_questions)) \ {category}
    /\ clicked' = ""
    /\ take_quiz(c, num_questions, shuffle, choice_key, choice, "", session_now)
    /\ UNCHANGED <<page, fixedVars, deleted_id>>

SetNumQuestions(k) ==
    /\ QuizPage
    /\ k \in (1..slider_max(load_questions)) \ {num_questions}
    /\ clicked' = ""
    /\ take_quiz(category, k, shuffle, choice_key, choice, "", session_now)
    /\ UNCHANGED <<page, fixedVars, deleted_id>>

ToggleShuffle ==
    /\ QuizPage
    /\ clicked' = ""
    /\ take_quiz(category, num_questions, ~shuffle, choice_key, choice, "", session_now)
    /\ UNCHANGED <<page, fixedVars, deleted_id>>

\* the options of the radio the last run rendered, as far as the user picks them
radio_options ==
    IF choice_key = 0 THEN {}
    ELSE LET q == selected_questions[q_index + 1]
         IN  {q.choices[i] : i \in 1..Min(MaxPick, Len(q.choices))}

PickChoice(c) ==
    /\ QuizPage /\ choice_key # 0
    /\ c \in radio_options \ {choice}
    /\ clicked' = ""
    /\ take_quiz(category, num_questions, shuffle, choice_key, c, "", session_now)
    /\ UNCHANGED <<page, fixedVars, deleted_id>>

ClickButton(b) ==
    /\ QuizPage /\ choice_key # 0
    /\ clicked' = b
    /\ take_quiz(category, num_questions, shuffle, choice_key, choice, b, session_now)
    /\ UNCHANGED <<page, fixedVars, deleted_id>>

ClickPrevious == ClickButton("Previous")
ClickSubmit == ClickButton("Submit Answer")
ClickNext == ClickButton("Next")
ClickFinish == finish_shown /\ ClickButton("Finish Quiz")

----------------------------------------------------------------------------
(* Edit Questions: one run per submitted form or clicked button *)

\* what the user types into the forms
CategoryInputs == {"Math"}
QuestionInputs == {"", "Q?"}
ChoicesInputs == {<<>>, <<" x", "", "y">>}     \* the lines of the text area
AnswerInputs == {"", " x", "x"}

\* str.strip on the texts above
strip(s) == CASE s = " x" -> "x" [] s = " " -> "" [] OTHER -> s

\* [c.strip() for c in choices_raw.splitlines() if c.strip()]
strip_lines(lines) ==
    LET stripped == [i \in 1..Len(lines) |-> strip(lines[i])]
    IN  SelectSeq2(stripped, [i \in 1..Len(lines) |-> stripped[i] # ""], 1)

\* the checks of the "Add Question" form
add_valid(question, choices, answer) ==
    /\ ~(question = "" \/ choices = <<>> \/ strip(answer) = "")
    /\ answer \in Range(choices)

\* an "Edit Existing" form without its check
edit_valid_unchecked(question, choices, answer) == TRUE

\* the check of the "Edit Existing" form
edit_valid(question, choices, answer) == answer \in Range(choices)

\* the position of next(q for q in qs if q["id"] == qid)
first_with_id(qs, qid) ==
    CHOOSE i \in 1..Len(qs) : qs[i].id = qid /\ \A j \in 1..(i - 1) : qs[j].id # qid

\* the bank after "Add Question"
add_question(qs, cat, question, choices, answer) ==
    Append(qs, [id |-> generate_id(qs), category |-> cat, question |-> question,
                choices |-> choices, answer |-> answer])

\* the bank after "Save Changes"
edit_question(qs, qid, cat, question, choices, answer) ==
    [qs EXCEPT ![first_with_id(qs, qid)] =
        [id |-> @.id, category |-> cat, question |-> question,
         choices |-> choices, answer |-> answer]]

\* a Delete that removes the first question whatever id was selected
delete_question_head(qs, qid) == Tail(qs)

\* the bank after "Delete"
delete_question(qs, qid) ==
    SelectSeq2(qs, [i \in 1..Len(qs) |-> qs[i].id # qid], 1)

\* the rest of a run of the Edit Questions page
EditorFrame ==
    /\ page = "Edit Questions"
    /\ results_file' = load_results
    /\ UNCHANGED <<sessionVars, page, quizWidgets, quizLocals, fixedVars>>

\* save_questions: a write of the question bank
save_questions(qs) ==
    /\ now < horizon
    /\ questions_file' = qs
    /\ now' = now + 1

AddQuestion(cat, question, choices_raw, answer) ==
    /\ EditorFrame
    /\ clicked' = "Add Question"
    /\ LET qs == load_questions
           choices == strip_lines(choices_raw)
       IN  IF add_valid(question, choices, answer)
           THEN /\ save_questions(add_question(qs, cat, question, choices, answer))
                /\ deleted_id' = 0
           ELSE /\ questions_file' = qs
                /\ now' = now
                /\ UNCHANGED deleted_id

EditQuestion(qid, cat, question, choices_raw, answer) ==
    /\ EditorFrame
    /\ qid \in Range(Ids(load_questions))
    /\ clicked' = "Save Changes"
    /\ LET qs == load_questions
           choices == strip_lines(choices_raw)
       IN  IF edit_valid(question, choices, answer)
           THEN /\ save_questions(edit_question(qs, qid, cat, question, choices, answer))
                /\ deleted_id' = 0
           ELSE /\ questions_file' = qs
                /\ now' = now
                /\ UNCHANGED deleted_id

DeleteQuestion(qid) ==
    /\ EditorFrame
    /\ qid \in Range(Ids(load_questions))
    /\ clicked' = "Delete"
    /\ save_questions(delete_question(load_questions, qid))
    /\ deleted_id' = qid

BulkReset ==
    /\ EditorFrame
    /\ clicked' = "Reset to Default"
    /\ save_questions(ensure_questions(FALSE, load_questions))
    /\ deleted_id' = 0

----------------------------------------------------------------------------
(* The application *)

\* the state after the first run of main (page Flash Screen): ensure_files_exist
\* has written both files and st.session_state is empty
Start(h, args, qs) ==
    /\ questions_file = ensure_questions(FALSE, <<>>)
    /\ results_file = ensure_results(FALSE, <<>>)
    /\ quiz_running = "absent"
    /\ last_pool = <<>>
    /\ current_q_index = 0
    /\ score = 0
    /\ answers = <<>>
    /\ start_time = 0
    /\ now = 0
    /\ page = "Flash Screen"
    /\ category = "All" /\ num_questions = 0 /\ shuffle = TRUE
    /\ quiz_shown = FALSE /\ choice_key = 0 /\ choice = "" /\ finish_shown = FALSE
    /\ selected_questions = <<>>
    /\ q_index = 0
    /\ clicked = ""
    /\ horizon = h
    /\ grade_in = args
    /\ grade_out = [pct |-> Frac(0, 1), grade |-> ""]
    /\ id_in = qs
    /\ id_out = 0
    /\ deleted_id = 0

Init == Start(MaxClock, <<0, 0>>, <<>>)

QuizNext ==
    \/ \E c \in {"All"} \cup get_categories(load_questions) : SetCategory(c)
    \/ \E k \in 1..SliderMax : SetNumQuestions(k)
    \/ ToggleShuffle
    \/ \E c \in radio_options : PickChoice(c)
    \/ ClickPrevious
    \/ ClickSubmit
    \/ ClickNext
    \/ ClickFinish

EditNext ==
    \/ \E cat \in CategoryInputs, question \in QuestionInputs,
          choices_raw \in ChoicesInputs, answer \in AnswerInputs :
            \/ AddQuestion(cat, question, choices_raw, answer)
            \/ \E qid \in Range(Ids(load_questions)) :
                   EditQuestion(qid, cat, question, choices_raw, answer)
    \/ \E qid \in Range(Ids(load_questions)) : DeleteQuestion(qid)
    \/ BulkReset

Next ==
    \/ \E p \in Pages : Navigate(p)
    \/ SidebarReset
    \/ QuizNext
    \/ EditNext

Spec == Init /\ [][Next]_vars

----------------------------------------------------------------------------
(* One visit of the Take Quiz page with the default category and count: the  *)
(* user opens the page, toggles the shuffle box, picks answers and clicks    *)
(* the page's buttons.                                                       *)

InitQuiz == Start(MaxQuizClock, <<0, 0>>, <<>>)

NextQuiz ==
    \/ Navigate("Take Quiz")
    \/ ToggleShuffle
    \/ \E c \in radio_options : PickChoice(c)
    \/ ClickPrevious
    \/ ClickSubmit
    \/ ClickNext
    \/ ClickFinish

SpecQuiz == InitQuiz /\ [][NextQuiz]_vars

----------------------------------------------------------------------------
(* Attempts alternating with changes of the bank: the user opens the Take    *)
(* Quiz page, moves forward, submits and finishes, and in between adds and   *)
(* deletes questions on the Edit Questions page.                             *)

InitBank == Start(MaxBankClock, <<0, 0>>, <<>>)

NextBank ==
    \/ Navigate("Take Quiz")
    \/ Navigate("Edit Questions")
    \/ ClickSubmit
    \/ ClickNext
    \/ ClickFinish
    \/ \E cat \in CategoryInputs, question \in QuestionInputs,
          choices_raw \in ChoicesInputs, answer \in AnswerInputs :
            AddQuestion(cat, question, choices_raw, answer)
    \/ \E qid \in Range(Ids(load_questions)) : DeleteQuestion(qid)

SpecBank == InitBank /\ [][NextBank]_vars

----------------------------------------------------------------------------
(* calculate_grade as a pure function: every 0 <= score <= total <= MaxTotal *)

InitGrade ==
    \E total \in 0..MaxTotal : \E s \in 0..total : Start(MaxClock, <<s, total>>, <<>>)

CallGrade ==
    /\ grade_out.grade = ""
    /\ grade_out' = calculate_grade(grade_in[1], grade_in[2])
    /\ UNCHANGED <<fileVars, sessionVars, now, page, quizWidgets, quizLocals, clicked,
                   horizon, grade_in, id_in, id_out, deleted_id>>

SpecGrade == InitGrade /\ [][CallGrade]_vars

----------------------------------------------------------------------------
(* generate_id as a pure function: every list of at most MaxLen questions    *)
(* with ids in 1..MaxId, in any order, repeated ids included                 *)

\* a question record with the given id, as the "Add Question" form stores it
question_with_id(i) ==
    [id |-> i, category |-> "Math", question |-> "Q?",
     choices |-> <<"x", "y">>, answer |-> "x"]

InitId ==
    \E n \in 0..MaxLen : \E ids \in [1..n -> 1..MaxId] :
        Start(MaxClock, <<0, 0>>, [i \in 1..n |-> question_with_id(ids[i])])

CallGenerateId ==
    /\ id_out = 0
    /\ id_out' = generate_id(id_in)
    /\ UNCHANGED <<fileVars, sessionVars, now, page, quizWidgets, quizLocals, clicked,
                   horizon, grade_in, grade_out, id_in, deleted_id>>

SpecId == InitId /\ [][CallGenerateId]_vars

----------------------------------------------------------------------------
(* Properties *)

\* the question the last run of take_quiz displayed and judged against
shown_question == selected_questions[q_index + 1]

\* the last run was a run of take_quiz that displayed a question
QuestionShown == page = "Take Quiz" /\ choice_key # 0

\* number of recorded submissions flagged correct
CorrectCount(ans) == Cardinality({i \in 1..Len(ans) : ans[i].is_correct})

AnsweredIds(ans) == [i \in 1..Len(ans) |-> ans[i].question_id]

\* C1: within one session (no reset in the run), a click on Submit Answer for a
\* question that already has a recorded submission leaves score and answers as they
\* were, whatever the radio holds; a click for a question without one appends exactly
\* one entry for that question and adds to score only when the entry is correct.
C1_ResubmitIsNoOp ==
    [][ (clicked' = "Submit Answer" /\ QuestionShown' /\ start_time' = start_time)
        => LET q == shown_question'
               already == \E i \in 1..Len(answers) : answers[i].question_id = q.id
           IN  IF already
               THEN answers' = answers /\ score' = score
               ELSE /\ answers' = Append(answers,
                           [question_id |-> q.id, selected_choice |-> choice',
                            is_correct |-> (choice' = q.answer)])
                    /\ score' = IF choice' = q.answer THEN score + 1 ELSE score
      ]_vars

\* a Submit Answer click on an already answered question, the radio holding a choice
\* other than the recorded one
C1_Witness ==
    /\ clicked = "Submit Answer" /\ QuestionShown
    /\ \E i \in 1..Len(answers) :
          /\ answers[i].question_id = choice_key
          /\ answers[i].selected_choice # choice

\* C2: in every reachable state score is the number of recorded submissions flagged
\* correct, answers holds at most one submission per question id, and there are at
\* most len(selected_questions) submissions.
C2_SessionInvariant ==
    /\ score = CorrectCount(answers)
    /\ \A i, j \in 1..Len(answers) :
          answers[i].question_id = answers[j].question_id => i = j
    /\ Len(answers) <= Len(selected_questions)

\* two submissions recorded, one correct and one not
C2_Witness ==
    /\ Len(answers) = 2 /\ score = 1
    /\ \E i \in 1..2 : ~answers[i].is_correct

\* C3: after Finish Quiz has produced a result record and until a new session
\* starts, clicks on Submit Answer, Previous, Next and Finish Quiz change neither
\* current_q_index, score nor answers, and append no second record.
C3_InactiveAfterFinish ==
    [][ (/\ quiz_running = "false"
         /\ clicked' \in {"Submit Answer", "Previous", "Next", "Finish Quiz"}
         /\ start_time' = start_time)
        => /\ current_q_index' = current_q_index
           /\ score' = score
           /\ answers' = answers
           /\ results_file' = results_file
      ]_vars

\* C4: whenever take_quiz gets as far as displaying a question, q_index is a valid
\* index of selected_questions; Previous at index 0 and Next at the last index leave
\* current_q_index as it is, otherwise they move it by exactly one.
C4_IndexInRange ==
    (page = "Take Quiz" /\ quiz_shown /\ filter_pool(load_questions, category) # <<>>)
    => LET n == Len(selected_questions) IN
       /\ choice_key # 0
       /\ q_index \in 0..(n - 1)
       /\ current_q_index \in 0..(n - 1)
       /\ clicked = "Previous" =>
             current_q_index = IF q_index = 0 THEN q_index ELSE q_index - 1
       /\ clicked = "Next" =>
             current_q_index = IF q_index = n - 1 THEN q_index ELSE q_index + 1
       /\ clicked \notin {"Previous", "Next"} => current_q_index = q_index

\* Next clicked on the last of several questions
C4_Witness ==
    /\ QuestionShown /\ clicked = "Next"
    /\ Len(selected_questions) >= 2
    /\ q_index = Len(selected_questions) - 1
    /\ current_q_index = q_index

\* C5: a run of take_quiz with a non-empty pool resets the session (index 0, score
\* 0, answers empty, start_time set anew, last_pool updated) if and only if no
\* session exists yet or the ids of the selection differ from last_pool; otherwise
\* the initialization leaves index, score, answers and start_time as they were.
C5_ResetIffSelectionChanged ==
    [][ QuestionShown'
        => LET ids == Ids(selected_questions')
               changed == quiz_running = "absent" \/ last_pool # ids
               before == IF clicked' = "Reset Quiz Session"
                         THEN quiz_session_reset ELSE session_now
           IN  /\ last_pool' = ids
               /\ quiz_running' # "absent"
               /\ changed =>
                    /\ start_time' = now + 1
                    /\ q_index' = 0
                    /\ clicked' # "Submit Answer" => (answers' = <<>> /\ score' = 0)
                    /\ clicked' = "Submit Answer" =>
                          (Len(answers') = 1 /\ answers'[1].question_id = ids[1])
               /\ ~changed =>
                    /\ start_time' = start_time
                    /\ q_index' = before.current_q_index
                    /\ clicked' # "Submit Answer" =>
                          (answers' = before.answers /\ score' = before.score)
                    /\ clicked' = "Submit Answer" =>
                          SubSeq(answers', 1, Len(before.answers)) = before.answers
      ]_vars

\* a second session, started because the category changed, after answers were
\* recorded in the first
C5_Witness ==
    /\ QuestionShown /\ category = "Math"
    /\ start_time = 3 /\ now = 3
    /\ answers = <<>> /\ score = 0 /\ current_q_index = 0
    /\ last_pool = <<2>>

\* C6: once a session has started, selected_questions stays the same until the
\* session is reset.
C6_SelectionFrozen ==
    [][ (quiz_running # "absent" /\ start_time' = start_time)
        => selected_questions' = selected_questions ]_vars

\* the positions of the bank whose question is in the chosen category
Matching(qs, cat) == {j \in 1..Len(qs) : cat = "All" \/ qs[j].category = cat}

\* the position of the i-th question of the chosen category, in bank order
NthMatching(qs, cat, i) ==
    CHOOSE j \in Matching(qs, cat) :
        Cardinality({m \in Matching(qs, cat) : m <= j}) = i

\* C7: for the bank, category and count of a run, selected_questions has length
\* min(count, size of the category's pool), holds only questions of the chosen
\* category (any for "All"), holds no question twice, and with shuffle off is the
\* first min(count, pool size) questions of the category in bank order.
C7_PoolDerivation ==
    QuestionShown
    => LET qs == load_questions
           sel == selected_questions
           m == Cardinality(Matching(qs, category))
           k == Min(num_questions, m)
       IN  /\ num_questions \in 1..Min(SliderMax, Len(qs))
           /\ Len(sel) = k
           /\ \A i \in 1..Len(sel) :
                 \E j \in Matching(qs, category) : sel[i] = qs[j]
           /\ \A i, j \in 1..Len(sel) : sel[i].id = sel[j].id => i = j
           /\ ~shuffle => \A i \in 1..k : sel[i] = qs[NthMatching(qs, category, i)]

\* a count larger than the category's pool, clamped to the pool
C7_Witness ==
    /\ QuestionShown /\ category = "Math" /\ ~shuffle
    /\ num_questions = 3
    /\ Len(selected_questions) = 1
    /\ selected_questions[1].id = 2

C9_ResultOfFullAttempt ==
    (/\ QuestionShown /\ clicked = "Finish Quiz" /\ finish_shown /\ ~shuffle
     /\ AnsweredIds(answers) = Ids(selected_questions))
    => LET n == Len(selected_questions)
           right == Cardinality({i \in 1..n :
                        answers[i].selected_choice = selected_questions[i].answer})
           r == results_file[Len(results_file)]
       IN  /\ results_file # <<>>
           /\ r.total = n
           /\ r.score = right
           /\ r.grade = calculate_grade(right, n).grade
           /\ r.pct = calculate_grade(right, n).pct
           /\ r.category = category
           /\ r.answers = answers
           /\ r.timestamp = now

\* the three default questions answered correctly in order, then Finish Quiz
C9_Witness ==
    /\ QuestionShown /\ clicked = "Finish Quiz" /\ ~shuffle
    /\ AnsweredIds(answers) = <<1, 2, 3>>
    /\ results_file # <<>>
    /\ LET r == results_file[Len(results_file)]
       IN  r.score = 3 /\ r.total = 3 /\ r.grade = "A" /\ r.pct = Frac(100, 1)

\* C10: results.json only ever changes by one record being added at its end, in a
\* run in which Finish Quiz was clicked; the records already stored keep their
\* positions and contents.
C10_ResultsAppendOnly ==
    [][ \/ results_file' = results_file
        \/ /\ clicked' = "Finish Quiz"
           /\ Len(results_file') = Len(results_file) + 1
           /\ SubSeq(results_file', 1, Len(results_file)) = results_file
      ]_vars

\* a second record stored behind the first
C10_Witness ==
    /\ Len(results_file) = 2
    /\ results_file[1].timestamp < results_file[2].timestamp

\* C11: generate_id returns 1 for an empty bank; for a non-empty bank it returns
\* the highest existing id plus one, which is greater than every existing id and
\* so the id of no question of the bank.
C11_GenerateIdFresh ==
    id_out # 0 =>
        IF id_in = <<>> THEN id_out = 1
        ELSE /\ \E i \in 1..Len(id_in) : id_out = id_in[i].id + 1
             /\ \A i \in 1..Len(id_in) : id_out > id_in[i].id
             /\ id_out \notin Range(Ids(id_in))

\* generate_id has been called on a bank whose highest id is neither its first nor
\* its last, and whose length differs from that id
C11_Witness ==
    /\ Ids(id_in) = <<2, 4, 1>>
    /\ id_out = 5

\* the ids of a bank are positive integers, no two of them equal
IdsPositiveDistinct(qs) ==
    /\ \A i \in 1..Len(qs) : qs[i].id \in Nat \ {0}
    /\ \A i, j \in 1..Len(qs) : i # j => qs[i].id # qs[j].id

\* the sequence s without its i-th element
Without(s, i) == SubSeq(s, 1, i - 1) \o SubSeq(s, i + 1, Len(s))

\* C12: from the default bank on, the ids of the persisted bank are positive and
\* pairwise distinct after every editor operation; Save Changes leaves the list of
\* ids as it was, and Delete removes exactly the question with the selected id and
\* keeps the others in their order.
C12_BankIdsDistinct ==
    /\ IdsPositiveDistinct(questions_file)
    /\ [][ /\ IdsPositiveDistinct(questions_file')
           /\ clicked' = "Save Changes" => Ids(questions_file') = Ids(questions_file)
           /\ clicked' = "Delete" =>
                 \E i \in 1..Len(questions_file) :
                     /\ questions_file[i].id = deleted_id'
                     /\ questions_file' = Without(questions_file, i)
         ]_vars

\* question 2 was deleted, a question was added (it got id 4), and question 1 was
\* then edited
C12_Witness ==
    /\ Ids(questions_file) = <<1, 3, 4>>
    /\ clicked = "Save Changes"
    /\ questions_file[1].question = "Q?"
    /\ now = 3

\* C13: from the default bank on, after every editor operation each question of
\* the persisted bank has a non-empty list of choices and an answer that is one of
\* its choices.
C13_AnswerAmongChoices ==
    \A i \in 1..Len(questions_file) :
        /\ questions_file[i].choices # <<>>
        /\ questions_file[i].answer \in Range(questions_file[i].choices)

\* the bank holds an edited default question and an added question, both with the
\* choices typed into the form
C13_Witness ==
    /\ Len(questions_file) = 4
    /\ questions_file[4].choices = <<"x", "y">> /\ questions_file[4].answer = "x"
    /\ questions_file[2].id = 2
    /\ questions_file[2].choices = <<"x", "y">> /\ questions_file[2].answer = "x"

\* a stored record whose form input had a question text, at least one choice and
\* an answer among the choices (the stored fields are the submitted ones)
InputValid(q) ==
    /\ q.question # ""
    /\ q.choices # <<>>
    /\ q.answer \in Range(q.choices)

\* C14: an Add Question or Save Changes submission with an empty question text, an
\* empty choice list or an answer that is not among the choices leaves the persisted
\* bank as it was; stated on the records of the bank: whatever record such a
\* submission adds or changes comes from an input without any of these defects.
C14_InvalidInputRejected ==
    [][ clicked' \in {"Add Question", "Save Changes"} =>
          \A i \in 1..Len(questions_file') :
              (i > Len(questions_file) \/ questions_file'[i] # questions_file[i])
                  => InputValid(questions_file'[i])
      ]_vars

\* C15: a result record is created and persisted only in a run of take_quiz that
\* processes a Finish Quiz click while current_q_index is len(selected_questions) - 1,
\* the index of the last question of the current selection.
C15_FinishOnlyOnLast ==
    [][ results_file' # results_file =>
          /\ page' = "Take Quiz" /\ clicked' = "Finish Quiz"
          /\ q_index' = Len(selected_questions') - 1
          /\ current_q_index' = Len(selected_questions') - 1
      ]_vars

\* a record was just persisted from the last of three questions with fewer recorded
\* submissions than questions
C15_Witness ==
    /\ clicked = "Finish Quiz" /\ results_file # <<>>
    /\ Len(selected_questions) = 3 /\ current_q_index = 2
    /\ LET r == results_file[Len(results_file)]
       IN  r.total = 3 /\ Len(r.answers) = 1

\* C16: a run of the Take Quiz page on an empty bank or an empty filtered pool
\* creates no session and changes nothing: quiz_running, last_pool, current_q_index,
\* score, answers, start_time, the question bank and the results store stay as they
\* were (the sidebar's Reset Quiz Session, which acts before the page, set aside).
C16_EmptyPoolNoOp ==
    [][ (/\ page' = "Take Quiz"
         /\ clicked' # "Reset Quiz Session"
         /\ \/ questions_file = <<>>
            \/ filter_pool(questions_file, category') = <<>>)
        => UNCHANGED <<sessionVars, fileVars>>
      ]_vars

\* the Take Quiz page was opened on a bank emptied during a running session that
\* has a recorded correct submission
C16_Witness ==
    /\ page = "Take Quiz" /\ questions_file = <<>> /\ ~quiz_shown
    /\ quiz_running = "true" /\ last_pool # <<>>
    /\ score = 1 /\ Len(answers) = 1 /\ start_time = 1

\* C17: the sidebar's Reset Quiz Session sets current_q_index to 0, score to 0 and
\* answers to empty in every state, a state without a session included, and writes
\* neither file; it does not touch quiz_running, last_pool and start_time, which
\* change in the same run only if the page that follows is Take Quiz and its own
\* initialization step fires; after the run the index is in range and score is the
\* number of correct submissions.
C17_SidebarResetFrame ==
    [][ clicked' = "Reset Quiz Session" =>
          /\ current_q_index' = 0 /\ score' = 0 /\ answers' = <<>>
          /\ UNCHANGED fileVars
          /\ (\/ page' # "Take Quiz"
              \/ choice_key' = 0
              \/ ~needs_reset(quiz_running, last_pool, selected_questions'))
             => UNCHANGED <<quiz_running, last_pool, start_time>>
          /\ (page' = "Take Quiz" /\ choice_key' # 0)
             => q_index' \in 0..(Len(selected_questions') - 1)
          /\ score' = CorrectCount(answers')
      ]_vars

\* the button was clicked on the Take Quiz page, shuffle off, in a session that
\* had moved on and recorded a submission: the three keys are cleared, last_pool
\* and start_time are the old ones
C17_Witness ==
    /\ clicked = "Reset Quiz Session" /\ page = "Take Quiz" /\ ~shuffle
    /\ quiz_running = "true" /\ last_pool = <<1, 2, 3>>
    /\ start_time < now /\ questions_file = default_questions /\ results_file = <<>>
    /\ current_q_index = 0 /\ score = 0 /\ answers = <<>>

\* C18: the entry recorded by a click on Submit Answer belongs to the question
\* that was displayed when the click was made: it has that question's id, its
\* choice is one of that question's choices, and is_correct is judged against that
\* question's answer; for both settings of the shuffle box.
C18_SubmissionOfShownQuestion ==
    [][ (/\ clicked' = "Submit Answer"
         /\ answers' # answers
         /\ answers' # <<>>)
        => LET e == answers'[Len(answers')]
           IN  /\ QuestionShown
               /\ e.question_id = shown_question.id
               /\ e.selected_choice \in Range(shown_question.choices)
               /\ e.is_correct = (e.selected_choice = shown_question.answer)
      ]_vars

\* C19: every record of the persisted results store has total >= 1,
\* 0 <= score <= total, at most total entries in answers, a score equal to the
\* number of its entries flagged correct, and the grade calculate_grade gives for
\* (score, total).
C19_ResultRecordSound ==
    \A i \in 1..Len(results_file) :
        LET r == results_file[i]
        IN  /\ r.total >= 1
            /\ 0 <= r.score /\ r.score <= r.total
            /\ Len(r.answers) <= r.total
            /\ r.score = CorrectCount(r.answers)
            /\ r.grade = calculate_grade(r.score, r.total).grade

\* the store holds a record of an attempt on three questions with one correct
\* submission, one incorrect submission and one question left unanswered
C19_Witness ==
    \E i \in 1..Len(results_file) :
        LET r == results_file[i]
        IN  /\ r.total = 3 /\ r.score = 1 /\ Len(r.answers) = 2
            /\ r.grade = "D"

\* an Add Question run that stores a question right after a Delete removed the
\* question with the highest id (deleted_id: the latest write was that Delete)
AddAfterDeleteOfHighest ==
    /\ clicked' = "Add Question"
    /\ Len(questions_file') = Len(questions_file) + 1
    /\ deleted_id # 0
    /\ \A i \in 1..Len(questions_file) : questions_file[i].id < deleted_id

\* C20 as stated: deleting the question with the highest id and then adding a
\* question gives the new question the deleted question's id.
C20_NewIdIsDeletedId ==
    [][ AddAfterDeleteOfHighest
        => questions_file'[Len(questions_file')].id = deleted_id ]_vars

\* C20, amended: deleting the question with the highest id d and then adding a
\* question gives the new question an id that is free in the bank and never
\* greater than d; it is d itself exactly when the highest remaining id is d - 1,
\* or when no question remains and d = 1.
C20_NewIdAtMostDeletedId ==
    [][ AddAfterDeleteOfHighest
        => LET new_id == questions_file'[Len(questions_file')].id
           IN  /\ new_id \notin Range(Ids(questions_file))
               /\ new_id <= deleted_id
               /\ new_id = deleted_id <=>
                     IF questions_file = <<>> THEN deleted_id = 1
                     ELSE \E i \in 1..Len(questions_file) :
                              questions_file[i].id = deleted_id - 1
      ]_vars

\* a stored result holds a submission for question 3 of the default bank, and id 3
\* now denotes a question added after that question was deleted
C20_Witness ==
    /\ clicked = "Add Question"
    /\ \E i \in 1..Len(results_file) : \E j \in 1..Len(results_file[i].answers) :
           LET a == results_file[i].answers[j]
           IN  /\ a.question_id = 3 /\ a.selected_choice = "H2O"
               /\ \E k \in 1..Len(questions_file) :
                      /\ questions_file[k].id = 3
                      /\ questions_file[k].question = "Q?"
                      /\ a.selected_choice \notin Range(questions_file[k].choices)

====
